---- MODULE Spec2Model ----
(***************************************************************************)
(* A model of the Google-search / webpage-extraction MCP service:          *)
(*   src/src/content-fetcher.ts  ContentFetcher (fetchContent,             *)
(*                               batchFetchContent, mock content)          *)
(*   src/src/index.ts            handleError, the tool-call handler and    *)
(*                               GoogleSearchService's three handlers and  *)
(*                               three public methods                      *)
(*   src/src/config.ts           getApiKeys                                *)
(*                                                                         *)
(* Text is a sequence of one-character strings; a fixed piece of message   *)
(* text is one element (a chunk), so that a template literal is a          *)
(* concatenation.  The messages of content-fetcher.ts are Japanese in the  *)
(* source; the chunks carry an ASCII gloss.  Text that is measured (the    *)
(* markdown body, the mock body) is character by character throughout.     *)
(* A results object is a record                                            *)
(* whose field entries is the function from its keys to their values; the  *)
(* URL strings of the model are ordinary property names.  An array that    *)
(* is serialised is a record with its items, as the JSON values are.       *)
(*                                                                         *)
(* The event loop is modelled as it schedules the code: a call runs to its *)
(* first await in one step, a network response is one step, and the        *)
(* continuations (microtasks) of settled promises run, in the order they   *)
(* were queued, before the next network response is delivered.             *)
(***************************************************************************)
EXTENDS Integers, Sequences, FiniteSets, TLC

VARIABLES
    nodeEnv,     \* process.env.NODE_ENV: "test" or "production"
    pc,          \* position of the one call in progress
    entry,       \* the function the caller invoked
    op,          \* the operation the call reached: a search, a page, a batch
    request,     \* the arguments the caller passed
    tasks,       \* one record per fetchContent promise the operation created
    results,     \* the results object of batchFetchContent
    fetchLog,    \* the axios.get calls issued so far, in order
    keyLookups,  \* the number of getApiKeys calls so far
    creds,       \* process.env.GOOGLE_API_KEY and GOOGLE_SEARCH_ENGINE_ID
    upstream,    \* the response of the search API, once it has arrived
    result,      \* in a public method of the service: what its handler
                 \* returned or threw
    outcome      \* what the invoked function returned or threw

vars == <<nodeEnv, pc, entry, op, request, tasks, results, fetchLog,
          keyLookups, creds, upstream, result, outcome>>

----------------------------------------------------------------------------
(* Text *)

WhiteSpace == {" ", "\t", "\n"}

RECURSIVE TrimStart(_)
TrimStart(s) ==
    IF s # <<>> /\ Head(s) \in WhiteSpace THEN TrimStart(Tail(s)) ELSE s

RECURSIVE TrimEnd(_)
TrimEnd(s) ==
    IF s # <<>> /\ s[Len(s)] \in WhiteSpace
    THEN TrimEnd(SubSeq(s, 1, Len(s) - 1))
    ELSE s

\* String.prototype.trim
TrimIdentity(s) == s
Trim(s) == TrimEnd(TrimStart(s))

\* the index of the first occurrence of c in s, 0 when there is none
RECURSIVE IndexFrom(_, _, _)
IndexFrom(s, c, i) ==
    IF i > Len(s) THEN 0
    ELSE IF s[i] = c THEN i
    ELSE IndexFrom(s, c, i + 1)

IndexOf(s, c) == IndexFrom(s, c, 1)

RECURSIVE Join(_, _)
Join(ss, sep) ==
    IF ss = <<>> THEN <<>>
    ELSE IF Len(ss) = 1 THEN ss[1]
    ELSE ss[1] \o sep \o Join(Tail(ss), sep)

----------------------------------------------------------------------------
(* new URL(url): the WHATWG parser without a base URL *)

Letters == {"a", "b", "f", "h", "i", "l", "m", "n", "o", "p", "r", "s", "t",
            "u", "v", "d", "e", "x"}
SchemeChars == Letters \cup {"+", "-", "."}
SpecialSchemes == {<<"h", "t", "t", "p">>, <<"h", "t", "t", "p", "s">>,
                   <<"f", "t", "p">>}

\* the scheme of s: the characters before the first ":", <<>> when s has none
UrlScheme(s) ==
    LET i == IndexOf(s, ":")
    IN  IF i > 1 /\ s[1] \in Letters
           /\ \A k \in 1..(i - 1) : s[k] \in SchemeChars
        THEN SubSeq(s, 1, i - 1)
        ELSE <<>>

\* what follows "scheme:" with the leading slashes removed
RECURSIVE StripSlashes(_)
StripSlashes(s) ==
    IF s # <<>> /\ Head(s) \in {"/", "\\"} THEN StripSlashes(Tail(s)) ELSE s

UrlAfterScheme(s) == SubSeq(s, Len(UrlScheme(s)) + 2, Len(s))

\* the characters of the host: up to the first "/" of what follows the slashes
UrlHost(s) ==
    LET rest == StripSlashes(UrlAfterScheme(s))
        j == IndexOf(rest, "/")
    IN  IF j = 0 THEN rest ELSE SubSeq(rest, 1, j - 1)

\* new URL(s) does not throw: s has a scheme, and a host when the scheme is a
\* special one
ParsesAlways(s) == TRUE
ParsesAsUrl(s) ==
    /\ UrlScheme(s) # <<>>
    /\ UrlScheme(s) \in SpecialSchemes => UrlHost(s) # <<>>

----------------------------------------------------------------------------
(* The parsed document (cheerio.load): a tree of nodes.  An element is      *)
(* addressed by its path, the sequence of child indices from the root, and  *)
(* document order is the preorder of the paths.                             *)

Node(tag, a, text, kids) ==
    [tag |-> tag, id |-> a.id, class |-> a.class, role |-> a.role,
     name |-> a.name, property |-> a.property, content |-> a.content,
     text |-> text, kids |-> kids]

NoAttrs == [id |-> "", class |-> "", role |-> "", name |-> "",
            property |-> "", content |-> <<>>]

Txt(s) == Node("#text", NoAttrs, s, <<>>)
El(tag, kids) == Node(tag, NoAttrs, <<>>, kids)
ElA(tag, attr, value, kids) ==
    Node(tag, [NoAttrs EXCEPT ![attr] = value], <<>>, kids)
Html(headKids, bodyKids) ==
    El("html", <<El("head", headKids), El("body", bodyKids)>>)

RECURSIVE NodeAt(_, _)
NodeAt(n, path) ==
    IF path = <<>> THEN n ELSE NodeAt(n.kids[Head(path)], Tail(path))

\* the paths of n and of all its descendants, in document order
RECURSIVE Paths(_)
RECURSIVE KidPaths(_, _)
KidPaths(n, i) ==
    IF i > Len(n.kids) THEN <<>>
    ELSE LET below == Paths(n.kids[i])
         IN  [k \in 1..Len(below) |-> <<i>> \o below[k]] \o KidPaths(n, i + 1)
Paths(n) == <<<<>>>> \o KidPaths(n, 1)

\* cheerio's .text(): the text of all text nodes below n, concatenated
RECURSIVE TextOf(_)
RECURSIVE KidsText(_, _)
KidsText(n, i) ==
    IF i > Len(n.kids) THEN <<>>
    ELSE TextOf(n.kids[i]) \o KidsText(n, i + 1)
TextOf(n) == IF n.tag = "#text" THEN n.text ELSE KidsText(n, 1)


\* A selector is a set of simple selectors: a tag name ("*" for any) and at
\* most one attribute test (attr = "" for none).
Tag(t) == [tag |-> t, attr |-> "", value |-> ""]
TagAttr(t, a, v) == [tag |-> t, attr |-> a, value |-> v]

Matches(n, sel) ==
    /\ n.tag # "#text"
    /\ \E ss \in sel :
          /\ ss.tag = "*" \/ n.tag = ss.tag
          /\ ss.attr = "" \/ n[ss.attr] = ss.value

\* $(selector): the elements of the document that match, in document order
Select(doc, sel) ==
    LET Hit(p) == Matches(NodeAt(doc, p), sel) IN SelectSeq(Paths(doc), Hit)

\* selection.find(selector): the matching proper descendants of any element
\* of the selection, each once, in document order
Find(doc, roots, sel) ==
    LET Hit(p) ==
            /\ Matches(NodeAt(doc, p), sel)
            /\ \E i \in 1..Len(roots) :
                  /\ Len(roots[i]) < Len(p)
                  /\ SubSeq(p, 1, Len(roots[i])) = roots[i]
    IN  SelectSeq(Paths(doc), Hit)

\* selection.remove(): the document without the subtrees of the selection
RECURSIVE Without(_, _)
RECURSIVE KidsWithout(_, _, _)
KidsWithout(n, sel, i) ==
    IF i > Len(n.kids) THEN <<>>
    ELSE IF Matches(n.kids[i], sel) THEN KidsWithout(n, sel, i + 1)
    ELSE <<Without(n.kids[i], sel)>> \o KidsWithout(n, sel, i + 1)
Without(n, sel) == [n EXCEPT !.kids = KidsWithout(n, sel, 1)]

----------------------------------------------------------------------------
(* ContentFetcher.fetchContent: the extraction of a retrieved document *)

PreviewChars == 500

NoiseSelector ==
    {Tag("script"), Tag("style"), Tag("nav"), Tag("footer"), Tag("header"),
     Tag("aside"), Tag("iframe"), TagAttr("*", "class", "ads"),
     TagAttr("*", "class", "advertisement"), TagAttr("*", "class", "banner"),
     TagAttr("*", "id", "banner"), TagAttr("*", "id", "ads")}

HeadingTags == <<"h1", "h2", "h3", "h4", "h5", "h6">>

BlockSelector ==
    {Tag(HeadingTags[k]) : k \in 1..Len(HeadingTags)}
        \cup {Tag("p"), Tag("ul"), Tag("ol"), Tag("blockquote")}

MainTiersArticleFirst ==
    <<{Tag("article")},
      {Tag("main")},
      {TagAttr("div", "role", "main")},
      {TagAttr("div", "class", "content"), TagAttr("div", "class", "main"),
       TagAttr("div", "id", "content"), TagAttr("div", "id", "main")},
      {Tag("body")}>>

\* the tiers of the main-content selection, in the order they are tried
MainTiers ==
    <<{Tag("main")},
      {Tag("article")},
      {TagAttr("div", "role", "main")},
      {TagAttr("div", "class", "content"), TagAttr("div", "class", "main"),
       TagAttr("div", "id", "content"), TagAttr("div", "id", "main")},
      {Tag("body")}>>

RECURSIVE FirstTier(_, _)
FirstTier(doc, k) ==
    IF k >= Len(MainTiers) \/ Select(doc, MainTiers[k]) # <<>>
    THEN Select(doc, MainTiers[k])
    ELSE FirstTier(doc, k + 1)

\* mainContent: the elements of the first tier that matches anything
MainContent(doc) == FirstTier(doc, 1)

\* .replace(/\s+/g, ' ')
RECURSIVE CollapseWs(_)
CollapseWs(s) ==
    IF s = <<>> THEN <<>>
    ELSE IF Head(s) \in WhiteSpace
         THEN <<" ">> \o CollapseWs(TrimStart(Tail(s)))
         ELSE <<Head(s)>> \o CollapseWs(Tail(s))

RECURSIVE DropWord(_)
DropWord(s) ==
    IF s # <<>> /\ Head(s) \notin WhiteSpace THEN DropWord(Tail(s)) ELSE s

RECURSIVE WordCountOfWords(_)
WordCountOfWords(s) ==
    IF TrimStart(s) = <<>> THEN 0
    ELSE (IF Head(TrimStart(s)) = "#" THEN 0 ELSE 1)
         + WordCountOfWords(DropWord(TrimStart(s)))

\* .split(/\s+/).filter(Boolean).length
RECURSIVE WordCount(_)
WordCount(s) ==
    IF TrimStart(s) = <<>> THEN 0
    ELSE 1 + WordCount(DropWord(TrimStart(s)))

HeadingLevel(tag) == CHOOSE k \in 1..Len(HeadingTags) : HeadingTags[k] = tag

Repeat(c, n) == [k \in 1..n |-> c]

\* the lines of one list: "- " + the trimmed text of each li below it
RECURSIVE ListLines(_, _, _)
ListLines(doc, lis, i) ==
    IF i > Len(lis) THEN <<>>
    ELSE <<"-", " ">> \o Trim(TextOf(NodeAt(doc, lis[i]))) \o <<"\n">>
         \o ListLines(doc, lis, i + 1)

\* what one element of the traversal appends to markdownContent
RenderBlock(doc, p) ==
    LET n == NodeAt(doc, p)
        text == CollapseWs(Trim(TextOf(n)))
    IN  IF text = <<>> THEN <<>>
        ELSE IF n.tag \in {HeadingTags[k] : k \in 1..Len(HeadingTags)}
             THEN Repeat("#", HeadingLevel(n.tag)) \o <<" ">> \o text
                  \o <<"\n", "\n">>
        ELSE IF n.tag = "p" THEN text \o <<"\n", "\n">>
        ELSE IF n.tag \in {"ul", "ol"}
             THEN ListLines(doc, Find(doc, <<p>>, {Tag("li")}), 1) \o <<"\n">>
        ELSE IF n.tag = "blockquote"
             THEN <<">", " ">> \o text \o <<"\n", "\n">>
        ELSE <<>>

RECURSIVE RenderBlocks(_, _, _)
RenderBlocks(doc, ps, i) ==
    IF i > Len(ps) THEN <<>>
    ELSE RenderBlock(doc, ps[i]) \o RenderBlocks(doc, ps, i + 1)

\* markdownContent, from the document after the removal of the noise
Markdown(doc) ==
    LET clean == Without(doc, NoiseSelector)
    IN  RenderBlocks(clean, Find(clean, MainContent(clean), BlockSelector), 1)

RECURSIVE TextOfAll(_, _, _)
TextOfAll(doc, ps, i) ==
    IF i > Len(ps) THEN <<>>
    ELSE TextOf(NodeAt(doc, ps[i])) \o TextOfAll(doc, ps, i + 1)

PageTitle(doc) ==
    LET t == Trim(TextOfAll(doc, Select(doc, {Tag("title")}), 1))
    IN  IF t # <<>> THEN t ELSE <<"No Title">>

\* selection.attr('content'): the attribute of the first element
FirstContent(doc, sel) ==
    IF Select(doc, sel) = <<>> THEN <<>>
    ELSE NodeAt(doc, Select(doc, sel)[1]).content

PageDescription(doc) ==
    IF FirstContent(doc, {TagAttr("meta", "name", "description")}) # <<>>
    THEN FirstContent(doc, {TagAttr("meta", "name", "description")})
    ELSE FirstContent(doc, {TagAttr("meta", "property", "og:description")})

MetaKey(n) == IF n.name # "" THEN n.name ELSE n.property

\* metaTags: a later meta element overwrites an earlier one of the same key
MetaTags(doc) ==
    LET ms == Select(doc, {Tag("meta")})
        Kept(i) == MetaKey(NodeAt(doc, ms[i])) # ""
                   /\ NodeAt(doc, ms[i]).content # <<>>
        keys == {MetaKey(NodeAt(doc, ms[i])) : i \in {j \in 1..Len(ms) : Kept(j)}}
        Last(k) == CHOOSE i \in 1..Len(ms) :
                      /\ Kept(i) /\ MetaKey(NodeAt(doc, ms[i])) = k
                      /\ \A j \in (i + 1)..Len(ms) :
                            ~(Kept(j) /\ MetaKey(NodeAt(doc, ms[j])) = k)
    IN  [k \in keys |-> NodeAt(doc, ms[Last(k)]).content]

Substring(s, n) == SubSeq(s, 1, IF Len(s) < n THEN Len(s) ELSE n)

\* the value fetchContent returns for a retrieved document
ExtractContent(url, doc) ==
    LET markdownContent == Markdown(doc)
    IN  [url |-> url,
         title |-> PageTitle(doc),
         description |-> PageDescription(doc),
         markdown_content |-> markdownContent,
         meta_tags |-> MetaTags(doc),
         stats |-> [word_count |-> WordCount(markdownContent),
                    approximate_chars |-> Len(markdownContent)],
         content_preview |->
            [first_500_chars |-> Substring(markdownContent, PreviewChars)]]

\* the markdown_content template of generateMockWebpageContent, character by
\* character, before and after ${domain}
MockHead ==
    <<"#", " ", "M", "o", "c", "k", " ", "C", "o", "n", "t", "e", "n", "t",
      " ", "f", "o", "r", " ">>

MockBody ==
    <<"\n", "\n", "T", "h", "i", "s", " ", "i", "s", " ", "a", " ", "m", "o",
      "c", "k", " ", "w", "e", "b", "p", "a", "g", "e", " ", "c", "o", "n",
      "t", "e", "n", "t", " ", "g", "e", "n", "e", "r", "a", "t", "e", "d",
      " ", "f", "o", "r", " ", "t", "e", "s", "t", "i", "n", "g", " ", "p",
      "u", "r", "p", "o", "s", "e", "s", ".", "\n", "\n", "#", "#", " ", "S",
      "e", "c", "t", "i", "o", "n", " ", "1", "\n", "\n", "L", "o", "r", "e",
      "m", " ", "i", "p", "s", "u", "m", " ", "d", "o", "l", "o", "r", " ",
      "s", "i", "t", " ", "a", "m", "e", "t", ",", " ", "c", "o", "n", "s",
      "e", "c", "t", "e", "t", "u", "r", " ", "a", "d", "i", "p", "i", "s",
      "c", "i", "n", "g", " ", "e", "l", "i", "t", ".", "\n", "\n", "#", "#",
      " ", "S", "e", "c", "t", "i", "o", "n", " ", "2", "\n", "\n", "U", "t",
      " ", "e", "n", "i", "m", " ", "a", "d", " ", "m", "i", "n", "i", "m",
      " ", "v", "e", "n", "i", "a", "m", ",", " ", "q", "u", "i", "s", " ",
      "n", "o", "s", "t", "r", "u", "d", " ", "e", "x", "e", "r", "c", "i",
      "t", "a", "t", "i", "o", "n", " ", "u", "l", "l", "a", "m", "c", "o",
      " ", "l", "a", "b", "o", "r", "i", "s", ".">>

\* generateMockWebpageContent, for a url that new URL accepts
MockContent(url) ==
    [url |-> url,
     title |-> <<"Mock Page Title for ">> \o UrlHost(url),
     description |-> <<"This is a mock webpage description for testing purposes. URL: ">> \o url,
     markdown_content |-> MockHead \o UrlHost(url) \o MockBody,
     meta_tags |-> [author |-> <<"Mock Generator">>,
                    description |-> <<"Mock webpage for ">> \o UrlHost(url),
                    keywords |-> <<"mock, test, webpage">>],
     stats |-> [word_count |-> 50, approximate_chars |-> 300],
     content_preview |-> [first_500_chars |->
                            MockHead \o UrlHost(url) \o MockBody]]

----------------------------------------------------------------------------
(* Values: errors, completions of a promise, response envelopes *)

Error(msg) == [name |-> "Error", message |-> msg]
TypeError(msg) == [name |-> "TypeError", message |-> msg]

Return(v) == [kind |-> "return", value |-> v]
Throw(e) == [kind |-> "throw", error |-> e]
Pending == [kind |-> "pending"]

\* JSON.stringify(value, null, 2), as the text that carries the value
JsonStringify(v) == <<"json", v>>

\* { content: [{ type: "text", text }] } and the same with isError: true
OkEnvelope(text) == [content |-> <<[type |-> "text", text |-> text]>>]
ErrEnvelope(text) ==
    [content |-> <<[type |-> "text", text |-> text]>>, isError |-> TRUE]

\* 'isError' in result && result.isError
IsErrorEnvelope(r) == "isError" \in DOMAIN r /\ r.isError

----------------------------------------------------------------------------
(* ContentFetcher: the messages and the steps of fetchContent *)

MaxBatchUrls == 5

\* content-fetcher.ts:24  the "invalid URL format: <url>" message
InvalidUrlFormatMsg(url) == <<"invalid URL format: ">> \o url
\* content-fetcher.ts:125 "failed to fetch the web page (HTTP <status>): <url>"
HttpFailureMsg(status, url) ==
    <<"failed to fetch the web page (HTTP ", status, "): ">> \o url
\* content-fetcher.ts:127 "content extraction error: <message>"
ExtractionErrorMsg(msg) == <<"content extraction error: ">> \o msg
\* content-fetcher.ts:150 "limited to at most 5 URLs at a time"
BatchLimitMsg == <<"limited to at most 5 URLs at a time to maintain performance">>
\* the message of the TypeError new URL throws
NewUrlErrorMsg == <<"Invalid URL">>

\* fetchContent up to its first await: the promise it leaves behind.  In test
\* mode the mock content (or the TypeError of new URL in
\* generateMockWebpageContent); otherwise a rejection for a url that new URL
\* refuses, and a pending axios.get for any other url.
FetchContentStart(env, url) ==
    IF env = "test"
    THEN IF ParsesAsUrl(url) THEN Return(MockContent(url))
         ELSE Throw(TypeError(NewUrlErrorMsg))
    ELSE IF ~ParsesAsUrl(url)
         THEN Throw(Error(ExtractionErrorMsg(InvalidUrlFormatMsg(url))))
         ELSE Pending

\* fetchContent from the response of axios.get on: the content of a 2xx
\* response, and the catch block's error for a rejected axios.get
FetchContentFinish(url, resp) ==
    IF resp.kind = "ok" THEN Return(ExtractContent(url, resp.doc))
    ELSE IF resp.kind = "httpError"
         THEN Throw(Error(HttpFailureMsg(resp.status, url)))
    ELSE Throw(Error(ExtractionErrorMsg(resp.message)))

\* the state of one fetchContent promise and of the code awaiting it; resp is
\* what axios.get settled with, once it has
Task(url, completion) ==
    [url |-> url,
     st |-> IF completion.kind = "pending" THEN "inflight" ELSE "settled",
     completion |-> completion,
     resp |-> [kind |-> "none"]]

\* urls.map(async (url) => ...): one fetchContent call per element, all made
\* before the first of them is awaited
LaunchFirstOnly(env, us) ==
    [i \in 1..(IF us = <<>> THEN 0 ELSE 1) |-> Task(us[i], FetchContentStart(env, us[i]))]
LaunchAll(env, us) ==
    [i \in 1..Len(us) |-> Task(us[i], FetchContentStart(env, us[i]))]

\* the axios.get calls of a list of tasks, in the order they were issued
RECURSIVE IssuedFetches(_)
IssuedFetches(ts) ==
    IF ts = <<>> THEN <<>>
    ELSE (IF Head(ts).st = "inflight"
          THEN <<[api |-> "page", url |-> Head(ts).url]>> ELSE <<>>)
         \o IssuedFetches(Tail(ts))

\* the entry the batch callback stores for a settled fetchContent promise
ErrorEntry(e) == [error |-> e.message]

SlotEntry(completion) ==
    IF completion.kind = "return" THEN completion.value
    ELSE ErrorEntry(completion.error)

AssignKeepFirst(res, url, completion) ==
    IF url \in DOMAIN res.entries THEN res
    ELSE [entries |-> [u \in DOMAIN res.entries \cup {url} |->
            IF u = url THEN SlotEntry(completion) ELSE res.entries[u]]]

\* results[url] = entry
AssignOnSuccess(res, url, completion) ==
    IF completion.kind = "return"
    THEN [entries |-> [u \in DOMAIN res.entries \cup {url} |->
            IF u = url THEN SlotEntry(completion) ELSE res.entries[u]]]
    ELSE res
Assign(res, url, completion) ==
    [entries |-> [u \in DOMAIN res.entries \cup {url} |->
        IF u = url THEN SlotEntry(completion) ELSE res.entries[u]]]

\* const results: WebpageAnalysisResponse = {}
EmptyObject == [entries |-> [u \in {} |-> u]]

\* await Promise.all(...): every callback has run to its end
AnyCollected(ts) == ts = <<>> \/ \E i \in 1..Len(ts) : ts[i].st = "collected"
AllCollected(ts) == \A i \in 1..Len(ts) : ts[i].st = "collected"

\* batchFetchContent in test mode: the loop over generateMockWebpageContent
RECURSIVE FirstUnparsable(_)
FirstUnparsable(us) ==
    IF us = <<>> THEN 0
    ELSE IF ~ParsesAsUrl(Head(us)) THEN 1
    ELSE IF FirstUnparsable(Tail(us)) = 0 THEN 0
    ELSE 1 + FirstUnparsable(Tail(us))

Range(f) == {f[i] : i \in DOMAIN f}

MockBatch(us) ==
    IF FirstUnparsable(us) # 0 THEN Throw(TypeError(NewUrlErrorMsg))
    ELSE Return([entries |-> [u \in Range(us) |-> MockContent(u)]])

----------------------------------------------------------------------------
(* index.ts: handleError *)

\* the context strings: "search", "extraction of the web page content",
\* "batch extraction of the content of several web pages"
SearchContext == <<"[search]">>
PageContext == <<"[web page content extraction]">>
BatchContext == <<"[batch web page content extraction]">>

\* A JSON value of an upstream body is a record with its type: an array has
\* items, a string has value, an object has its members.
IsArray(j) == j.type = "array"

\* errorDetails.length > 0
HasLength(j) ==
    \/ j.type = "array" /\ j.items # <<>>
    \/ j.type = "string" /\ j.value # <<>>

\* `- ${e.reason}: ${e.message}` for each element, joined by "\n"
RECURSIVE DetailLines(_)
DetailLines(items) ==
    IF items = <<>> THEN <<>>
    ELSE <<"-", " ">> \o Head(items).reason \o <<":", " ">> \o Head(items).message
         \o (IF Len(items) > 1 THEN <<"\n">> ELSE <<>>)
         \o DetailLines(Tail(items))

\* errorDetails.map(...) throws: the value has no map, or an element is null
DetailsThrow(j) ==
    \/ j.type = "string"
    \/ j.type = "array" /\ \E i \in 1..Len(j.items) : j.items[i].type = "null"

\* the error object axios rejects with: response is present for an answer
\* outside 2xx
IsAxiosErrorWithResponse(e) == e.name = "AxiosError" /\ "response" \in DOMAIN e

ErrorInfo(e) ==
    IF "error" \in DOMAIN e.response.data THEN e.response.data.error
    ELSE [type |-> "object"]

\* handleError(error, context): the completion of the call
HandleError(e, context) ==
    IF IsAxiosErrorWithResponse(e)
    THEN LET info == ErrorInfo(e)
             code == IF "code" \in DOMAIN info THEN info.code
                     ELSE e.response.status
             msg == IF "message" \in DOMAIN info THEN info.message
                    ELSE e.message
             details == IF "errors" \in DOMAIN info THEN info.errors
                        ELSE [type |-> "array", items |-> <<>>]
             head == context \o <<" ni shippai shimashita (", code, "): ">> \o msg
                     \o <<"\n">> \o context \o <<" failed (", code, "): ">> \o msg
         IN  IF ~HasLength(details) THEN Return(ErrEnvelope(head))
             ELSE IF DetailsThrow(details)
                  THEN Throw(TypeError(<<"errorDetails.map">>))
             ELSE Return(ErrEnvelope(head \o <<"\n", "\n", "details:", "\n">>
                                     \o DetailLines(details.items)))
    ELSE Return(ErrEnvelope(context \o <<" ni shippai shimashita: ">> \o e.message
                            \o <<"\n">> \o context \o <<" failed: ">> \o e.message))

----------------------------------------------------------------------------
(* index.ts: handleSearch *)

DefaultNumResults == 5
MinNumResults == 1
MaxNumResults == 10

EmptyQueryMsg == <<"Search query cannot be empty. Please provide specific keywords.">>
InvalidNumResultsMsg == <<"Number of results must be between 1 and 10.">>
NoResultsMsg == <<"No search results found. Please modify your search criteria or check your API key settings.">>

\* an optional argument that is present and truthy
Given(args, k) ==
    /\ k \in DOMAIN args
    /\ args[k] # (IF k = "num_results" THEN 0 ELSE <<>>)

\* the validation that precedes the try block: the error text, <<>> when the
\* arguments pass
SearchRejection(args) ==
    IF Trim(args.query) = <<>> THEN EmptyQueryMsg
    ELSE IF Given(args, "num_results")
            /\ (args.num_results < MinNumResults \/ args.num_results > MaxNumResults)
         THEN InvalidNumResultsMsg
    ELSE <<>>

\* config.ts getApiKeys

GetApiKeys(env, processEnv) ==
    IF env = "test"
    THEN [apiKey |-> IF processEnv.GOOGLE_API_KEY # <<>> THEN processEnv.GOOGLE_API_KEY
                     ELSE <<"mock_api_key">>,
          searchEngineId |-> IF processEnv.GOOGLE_SEARCH_ENGINE_ID # <<>>
                             THEN processEnv.GOOGLE_SEARCH_ENGINE_ID
                             ELSE <<"mock_search_engine_id">>]
    ELSE [apiKey |-> processEnv.GOOGLE_API_KEY,
          searchEngineId |-> processEnv.GOOGLE_SEARCH_ENGINE_ID]

\* String.prototype.toUpperCase on the letters of the model
UpperOf(c) ==
    CASE c = "u" -> "U" [] c = "s" -> "S" [] c = "j" -> "J" [] c = "p" -> "P"
      [] c = "k" -> "K" [] OTHER -> c

ToUpperCaseSame(s) == s
ToUpperCase(s) == [i \in 1..Len(s) |-> UpperOf(s[i])]

\* an object without the members whose value is undefined
Members(pairs) ==
    LET kept == {i \in 1..Len(pairs) : pairs[i].defined}
    IN  [k \in {pairs[i].key : i \in kept} |->
            pairs[CHOOSE i \in kept : pairs[i].key = k].value]

Member(k, v) == [key |-> k, defined |-> TRUE, value |-> v]
Optional(k, present, v) == [key |-> k, defined |-> present, value |-> v]

\* the query parameters of the upstream call
SearchParams(args, keys) ==
    Members(<<
        Member("key", keys.apiKey),
        Member("cx", keys.searchEngineId),
        Member("q", args.query),
        Member("num", IF Given(args, "num_results") THEN args.num_results
                      ELSE DefaultNumResults),
        Optional("dateRestrict", "date_restrict" \in DOMAIN args,
                 IF "date_restrict" \in DOMAIN args THEN args.date_restrict ELSE <<>>),
        Optional("lr", Given(args, "language"),
                 IF Given(args, "language") THEN <<"lang_">> \o args.language ELSE <<>>),
        Optional("cr", Given(args, "country"),
                 IF Given(args, "country")
                 THEN <<"country">> \o ToUpperCase(args.country) ELSE <<>>),
        Member("safe", IF Given(args, "safe_search") THEN args.safe_search
                       ELSE <<"off">>)
    >>)

\* item.pagemap?.metatags?.[0]?.['article:published_time'] || ''
DatePublishedNone(item) == <<>>
DatePublished(item) ==
    IF /\ "pagemap" \in DOMAIN item
       /\ "metatags" \in DOMAIN item.pagemap
       /\ item.pagemap.metatags # <<>>
       /\ "article:published_time" \in DOMAIN item.pagemap.metatags[1]
    THEN item.pagemap.metatags[1]["article:published_time"]
    ELSE <<>>

\* one SearchResult; a member that is undefined is not a member
ToSearchResult(item) ==
    Members(<<
        Optional("title", "title" \in DOMAIN item,
                 IF "title" \in DOMAIN item THEN item.title ELSE <<>>),
        Optional("link", "link" \in DOMAIN item,
                 IF "link" \in DOMAIN item THEN item.link ELSE <<>>),
        Optional("snippet", "snippet" \in DOMAIN item,
                 IF "snippet" \in DOMAIN item THEN item.snippet ELSE <<>>),
        Optional("pagemap", "pagemap" \in DOMAIN item,
                 IF "pagemap" \in DOMAIN item THEN item.pagemap ELSE <<>>),
        Member("datePublished", DatePublished(item)),
        Member("source", IF "displayLink" \in DOMAIN item THEN item.displayLink
                         ELSE <<>>)
    >>)

\* handleSearch from the response of the upstream call on
SearchFinishNonEmpty(resp) ==
    IF resp.kind = "ok"
    THEN IF \/ "items" \notin DOMAIN resp.data
            \/ ~IsArray(resp.data.items)
            \/ resp.data.items.items = <<>>
         THEN Return(ErrEnvelope(NoResultsMsg))
         ELSE Return(OkEnvelope(JsonStringify(
                [type |-> "array",
                 items |-> [i \in 1..Len(resp.data.items.items) |->
                              ToSearchResult(resp.data.items.items[i])]])))
    ELSE HandleError(resp.error, SearchContext)
SearchFinish(resp) ==
    IF resp.kind = "ok"
    THEN IF "items" \notin DOMAIN resp.data \/ ~IsArray(resp.data.items)
         THEN Return(ErrEnvelope(NoResultsMsg))
         ELSE Return(OkEnvelope(JsonStringify(
                [type |-> "array",
                 items |-> [i \in 1..Len(resp.data.items.items) |->
                              ToSearchResult(resp.data.items.items[i])]])))
    ELSE HandleError(resp.error, SearchContext)

----------------------------------------------------------------------------
(* index.ts: the three handlers and the tool-call handler *)

InvalidUrlMsg ==
    <<"Invalid URL format. URL must start with http:// or https:// and be properly formatted.">>
TooManyUrlsMsg ==
    <<"Maximum 5 URLs allowed per request to maintain performance. Please reduce the number of URLs.">>
InvalidUrlsMsg(invalid) ==
    <<"Invalid URL format for: ">> \o Join(invalid, <<",", " ">>)
    \o <<"\nAll URLs must start with http:// or https:// and be properly formatted.">>
NoContentMsg == <<"Could not extract content from any of the provided URLs.">>

InvalidUrlsFirst(us) ==
    LET Bad(u) == ~ParsesAsUrl(u)
        bad == SelectSeq(us, Bad)
    IN  IF bad = <<>> THEN <<>> ELSE <<Head(bad)>>

\* args.urls.filter(url => new URL(url) throws)
InvalidUrls(us) == LET Bad(u) == ~ParsesAsUrl(u) IN SelectSeq(us, Bad)

SuccessfulUrlsAll(res) == DOMAIN res.entries

\* Object.keys(results).filter(url => results[url] && !('error' in results[url]))
SuccessfulUrls(res) ==
    {u \in DOMAIN res.entries : "error" \notin DOMAIN res.entries[u]}

\* handleAnalyzeWebpage from the completion of fetchContent on
AnalyzeWebpageFinish(c) ==
    IF c.kind = "return" THEN Return(OkEnvelope(JsonStringify(c.value)))
    ELSE HandleError(c.error, PageContext)

\* handleBatchAnalyzeWebpages from the completion of batchFetchContent on
BatchAnalyzeFinish(c) ==
    IF c.kind = "throw" THEN HandleError(c.error, BatchContext)
    ELSE IF SuccessfulUrls(c.value) = {} THEN Return(ErrEnvelope(NoContentMsg))
    ELSE Return(OkEnvelope(JsonStringify(c.value)))

\* what the invoked function completes with, given the completion of the
\* ContentFetcher call it awaited: a handler of the service (reached through
\* the tool call) wraps it, a method of the ContentFetcher passes it on
Finish(e, kind, c) ==
    IF e \in {"fetchContent", "batchFetchContent"} THEN c
    ELSE IF kind = "page" THEN AnalyzeWebpageFinish(c)
    ELSE BatchAnalyzeFinish(c)

\* JSON values of a tool call's arguments
JStr(s) == [type |-> "string", value |-> s]
JNum(n) == [type |-> "number", num |-> n]
JArr(items) == [type |-> "array", items |-> items]
JObj(members) == [type |-> "object", members |-> members]
JNull == [type |-> "null"]
JUndefined == [type |-> "undefined"]

Digits == <<"0", "1", "2", "3", "4", "5", "6", "7", "8", "9">>

RECURSIVE NumStr(_)
NumStr(n) ==
    IF n < 0 THEN <<"-">> \o NumStr(0 - n)
    ELSE IF n < 10 THEN <<Digits[n + 1]>>
    ELSE NumStr(n \div 10) \o <<Digits[(n % 10) + 1]>>

\* String(value)
RECURSIVE JsString(_)
JsString(j) ==
    CASE j.type = "string" -> j.value
      [] j.type = "number" -> NumStr(j.num)
      [] j.type = "null" -> <<"n", "u", "l", "l">>
      [] j.type = "array" ->
            Join([i \in 1..Len(j.items) |-> JsString(j.items[i])], <<",">>)
      [] OTHER -> <<"[object Object]">>

\* typeof arguments === 'object' && arguments !== null && key in arguments
HasMember(j, k) == j.type = "object" /\ k \in DOMAIN j.members

HasTyped(j, k, t) == HasMember(j, k) /\ j.members[k].type = t

\* the argument object the tool-call handler builds for handleSearch
ToolSearchArgs(j) ==
    Members(<<
        Member("query", JsString(j.members.query)),
        Optional("num_results", HasTyped(j, "num_results", "number"),
                 IF HasTyped(j, "num_results", "number")
                 THEN j.members.num_results.num ELSE 0),
        Optional("date_restrict", HasTyped(j, "date_restrict", "string"),
                 IF HasTyped(j, "date_restrict", "string")
                 THEN j.members.date_restrict.value ELSE <<>>),
        Optional("language", HasTyped(j, "language", "string"),
                 IF HasTyped(j, "language", "string")
                 THEN j.members.language.value ELSE <<>>),
        Optional("country", HasTyped(j, "country", "string"),
                 IF HasTyped(j, "country", "string")
                 THEN j.members.country.value ELSE <<>>),
        Optional("safe_search", HasTyped(j, "safe_search", "string"),
                 IF HasTyped(j, "safe_search", "string")
                 THEN j.members.safe_search.value ELSE <<>>)
    >>)

\* the tool the switch dispatches to: "" for a throw
DispatchAnyQuery(req) ==
    IF HasMember(req.arguments, "query") THEN "google_search"
    ELSE IF req.name = "extract_webpage_content" /\ HasMember(req.arguments, "url")
         THEN "extract_webpage_content"
    ELSE IF req.name = "extract_multiple_webpages"
            /\ HasTyped(req.arguments, "urls", "array")
         THEN "extract_multiple_webpages"
    ELSE ""
Dispatch(req) ==
    CASE req.name = "google_search" /\ HasMember(req.arguments, "query")
            -> "google_search"
      [] req.name = "extract_webpage_content" /\ HasMember(req.arguments, "url")
            -> "extract_webpage_content"
      [] req.name = "extract_multiple_webpages"
            /\ HasTyped(req.arguments, "urls", "array")
            -> "extract_multiple_webpages"
      [] OTHER -> ""

ToolNames ==
    {"google_search", "extract_webpage_content", "extract_multiple_webpages"}

\* the Error of the switch when it dispatches to no handler
DispatchError(req) ==
    IF req.name \in ToolNames
    THEN Error(<<"Invalid arguments for ", req.name, " tool">>)
    ELSE Error(<<"Unknown tool: ", req.name>>)

----------------------------------------------------------------------------
(* The inputs of the calls and the answers of the network *)

MaxQueryLen == 2
MaxMixedUrls == 3
MaxMethodUrls == 2

UrlA == <<"h", "t", "t", "p", ":", "/", "/", "a">>
UrlB == <<"h", "t", "t", "p", "s", ":", "/", "/", "b">>
UrlFtp == <<"f", "t", "p", ":", "/", "/", "f">>
UrlBad == <<"i", "n", "v", "a", "l", "i", "d", "-", "u", "r", "l">>

Urls == {UrlA, UrlB, UrlFtp, UrlBad}

SeqsUpTo(S, n) == UNION {[1..k -> S] : k \in 0..n}

\* the url lists of the batch calls: every list of up to MaxMixedUrls urls,
\* and one url repeated as often as the limit allows and once more
UrlSeqs ==
    SeqsUpTo(Urls, MaxMixedUrls)
    \cup {[i \in 1..n |-> u] : u \in Urls, n \in {MaxBatchUrls, MaxBatchUrls + 1}}

\* the url lists of batchExtractWebpages: every list of up to MaxMethodUrls
\* urls, and one url repeated once more than the limit allows
MethodUrlSeqs ==
    SeqsUpTo(Urls, MaxMethodUrls)
    \cup {[i \in 1..(MaxBatchUrls + 1) |-> u] : u \in Urls}

HttpSchemes == {<<"h", "t", "t", "p">>, <<"h", "t", "t", "p", "s">>}

DocAB ==
    Html(<<El("title", <<Txt(<<"T">>)>>)>>,
         <<El("h1", <<Txt(<<"A">>)>>), El("p", <<Txt(<<"B", " ", "C">>)>>)>>)

\* one paragraph outside any region and one region of each tier, the lower
\* tiers first in document order
Regions ==
    <<El("p", <<Txt(<<"X">>)>>),
      ElA("div", "class", "content", <<El("p", <<Txt(<<"C">>)>>)>>),
      ElA("div", "role", "main", <<El("p", <<Txt(<<"R">>)>>)>>),
      El("article", <<El("p", <<Txt(<<"A">>)>>)>>),
      El("main", <<El("p", <<Txt(<<"M">>)>>)>>)>>

\* a document whose body holds the first k of them
TierDoc(k) == Html(<<>>, SubSeq(Regions, 1, k))

\* two elements of one tier
DocTwoArticles ==
    Html(<<>>, <<El("article", <<El("p", <<Txt(<<"F">>)>>)>>),
                 El("article", <<El("p", <<Txt(<<"S">>)>>)>>)>>)

\* <p>P</p><ul><li>a</li><li>b<ul><li>c</li></ul></li></ul>
DocNestedList ==
    Html(<<>>,
         <<El("p", <<Txt(<<"P">>)>>),
           El("ul", <<El("li", <<Txt(<<"a">>)>>),
                      El("li", <<Txt(<<"b">>),
                                 El("ul", <<El("li", <<Txt(<<"c">>)>>)>>)>>)>>)>>)

\* <p> x  y </p><ul><li>a  b</li><li> </li></ul>
DocLooseList ==
    Html(<<>>,
         <<El("p", <<Txt(<<" ", "x", " ", " ", "y", " ">>)>>),
           El("ul", <<El("li", <<Txt(<<"a", " ", " ", "b">>)>>),
                      El("li", <<Txt(<<" ">>)>>)>>)>>)

Docs ==
    {DocAB, DocTwoArticles, DocNestedList, DocLooseList}
    \cup {TierDoc(k) : k \in 1..Len(Regions)}

\* what axios.get(url) can settle with: a 2xx response carrying a document
\* (any of Docs for a single page, DocAB for the pages of a batch), a
\* response outside 2xx, or no response; a scheme that is not http(s) gets no
\* response
PageResponses(url) ==
    IF UrlScheme(url) \in HttpSchemes
    THEN {[kind |-> "ok", status |-> "200", doc |-> d] :
            d \in IF op.kind = "page" THEN Docs ELSE {DocAB}}
         \cup {[kind |-> "httpError", status |-> "404",
                message |-> <<"Request failed with status code 404">>],
               [kind |-> "noResponse", message |-> <<"connect ECONNREFUSED">>]}
    ELSE {[kind |-> "noResponse",
           message |-> <<"Unsupported protocol ">> \o UrlScheme(url) \o <<":">>]}

OptionValues ==
    [date_restrict |-> <<"m", "3">>, language |-> <<"j", "a">>,
     country |-> <<"u", "s">>, safe_search |-> <<"h", "i", "g", "h">>]

SearchArgs(q, nset, opts) ==
    [k \in {"query"} \cup {"num_results" : x \in nset} \cup opts |->
        CASE k = "query" -> q
          [] k = "num_results" -> CHOOSE x \in nset : TRUE
          [] OTHER -> OptionValues[k]]

NumResultsChoices == {{}} \cup {{x} : x \in {0 - 1, 0, 1, 10, 11}}

\* the argument objects of handleSearch: every query with at most one
\* num_results, the query "q" with any subset of the options besides, and
\* the query "q" with every option an empty string
SearchArgObjects ==
    {SearchArgs(q, nset, {}) : q \in SeqsUpTo({" ", "\t", "q"}, MaxQueryLen), nset \in NumResultsChoices}
    \cup {SearchArgs(<<"q">>, nset, opts) :
            nset \in NumResultsChoices, opts \in SUBSET DOMAIN OptionValues}
    \cup {[query |-> <<"q">>, date_restrict |-> <<>>, language |-> <<>>,
           country |-> <<>>, safe_search |-> <<>>]}

ToJson(args) ==
    [k \in DOMAIN args |->
        IF k = "num_results" THEN JNum(args[k]) ELSE JStr(args[k])]

JUrls(us) == JArr([i \in 1..Len(us) |-> JStr(us[i])])

\* arguments no tool accepts
BadArguments ==
    {JUndefined, JNull, JStr(<<"q">>), JObj([other |-> JStr(<<"q">>)]),
     JObj([urls |-> JStr(UrlA)])}

ToolRequests ==
    {[name |-> n, arguments |-> a] :
        n \in ToolNames \cup {"unknown_tool"}, a \in BadArguments}
    \cup {[name |-> "unknown_tool", arguments |-> JObj([query |-> JStr(<<"q">>)])]}
    \cup {[name |-> "google_search", arguments |-> JObj(ToJson(a))] :
            a \in SearchArgObjects}
    \cup {[name |-> "google_search", arguments |-> JObj(m)] :
            m \in {[query |-> JNum(7)], [query |-> JNull],
                   [query |-> JStr(<<"q">>), num_results |-> JStr(<<"1", "1">>)],
                   [query |-> JStr(<<"q">>), language |-> JNum(7)]}}
    \cup {[name |-> "extract_webpage_content", arguments |-> JObj([url |-> j])] :
            j \in {JStr(u) : u \in Urls} \cup {JNum(7)}}
    \cup {[name |-> "extract_multiple_webpages",
           arguments |-> JObj([urls |-> JUrls(us)])] : us \in UrlSeqs}

Item1 ==
    [title |-> <<"T1">>, link |-> UrlA, snippet |-> <<"S1">>,
     displayLink |-> <<"a">>,
     pagemap |-> [metatags |-> <<("article:published_time" :> <<"2024">>)>>]]
Item2 == [title |-> <<"T2">>, link |-> UrlB, snippet |-> <<"S2">>]

AxiosError(msg) == [name |-> "AxiosError", message |-> msg]
AxiosErrorResponse(status, data) ==
    [name |-> "AxiosError",
     message |-> <<"Request failed with status code ", status>>,
     response |-> [status |-> status, data |-> data]]

SubError(reason, msg) == [type |-> "object", reason |-> reason, message |-> msg]

\* what the upstream search call can settle with
SearchResponses ==
    {[kind |-> "ok", data |-> [items |-> JArr(<<>>)]],
     [kind |-> "ok", data |-> [items |-> JArr(<<Item1, Item2>>)]],
     [kind |-> "ok", data |-> [items |-> JArr(<<Item2, Item1, Item2>>)]],
     [kind |-> "ok", data |-> [kind |-> <<"customsearch#search">>]],
     [kind |-> "ok", data |-> [items |-> JStr(<<"x">>)]],
     [kind |-> "error", error |-> AxiosError(<<"getaddrinfo ENOTFOUND">>)],
     [kind |-> "error", error |-> AxiosErrorResponse("500", [type |-> "string"])],
     [kind |-> "error", error |-> AxiosErrorResponse("403",
        [error |-> [type |-> "object", code |-> "403",
                    message |-> <<"Quota exceeded">>,
                    errors |-> JArr(<<SubError(<<"rateLimitExceeded">>, <<"Rate limit">>),
                                      SubError(<<"quotaExceeded">>, <<"Quota">>)>>)]])],
     [kind |-> "error", error |-> AxiosErrorResponse("400",
        [error |-> [type |-> "object", errors |-> JArr(<<JNull>>)]])]}

CredChoices ==
    {[GOOGLE_API_KEY |-> <<>>, GOOGLE_SEARCH_ENGINE_ID |-> <<>>],
     [GOOGLE_API_KEY |-> <<"KEY">>, GOOGLE_SEARCH_ENGINE_ID |-> <<"CX">>]}

----------------------------------------------------------------------------
(* The state machine *)

NoOp == [kind |-> "none"]

Init ==
    /\ nodeEnv \in {"test", "production"}
    /\ creds \in CredChoices
    /\ pc = "idle"
    /\ entry = ""
    /\ op = NoOp
    /\ request = [name |-> "", arguments |-> JUndefined]
    /\ tasks = <<>>
    /\ results = EmptyObject
    /\ fetchLog = <<>>
    /\ keyLookups = 0
    /\ upstream = JUndefined
    /\ result = Pending
    /\ outcome = Pending

\* the call is made: who was invoked, with what, and the operation reached
Begin(e, raw, o) ==
    /\ pc = "idle"
    /\ entry' = e
    /\ request' = raw
    /\ op' = o
    /\ UNCHANGED <<nodeEnv, creds>>

\* search, extractWebpage and batchExtractWebpages after the await of their
\* handler: an error envelope is thrown as an Error with its text, the text
\* of any other envelope goes through JSON.parse; a handler that throws
\* rejects the await
Unwrap(c) ==
    IF c.kind = "throw" THEN c
    ELSE IF IsErrorEnvelope(c.value)
         THEN Throw(Error(c.value.content[1].text))
    ELSE LET text == c.value.content[1].text
         IN  IF Len(text) = 2 /\ text[1] = "json" THEN Return(text[2])
             ELSE Throw([name |-> "SyntaxError", message |-> text])

\* the function e completes: c is the completion of the handler or of the
\* ContentFetcher method it ran, which a public method of the service unwraps
Settle(e, c) ==
    IF e \in {"search", "extractWebpage", "batchExtractWebpages"}
    THEN result' = c /\ outcome' = Unwrap(c)
    ELSE outcome' = c /\ UNCHANGED result

\* the invoked function completes without awaiting the network
Complete(c) ==
    /\ pc' = "done"
    /\ Settle(entry', c)
    /\ UNCHANGED <<tasks, results, fetchLog, keyLookups, upstream>>

\* the invoked function awaits the fetchContent promises ts
Await(ts) ==
    /\ pc' = "awaitFetch"
    /\ outcome' = Pending
    /\ tasks' = ts
    /\ fetchLog' = fetchLog \o IssuedFetches(ts)
    /\ UNCHANGED <<results, keyLookups, upstream, result>>

\* handleSearch up to its await
RunHandleSearch(args) ==
    IF SearchRejection(args) # <<>>
    THEN Complete(Return(ErrEnvelope(SearchRejection(args))))
    ELSE /\ pc' = "awaitSearch"
         /\ outcome' = Pending
         /\ keyLookups' = keyLookups + 1
         /\ fetchLog' = Append(fetchLog,
                [api |-> "search",
                 params |-> SearchParams(args, GetApiKeys(nodeEnv, creds))])
         /\ UNCHANGED <<tasks, results, upstream, result>>

\* fetchContent(url) up to its await
RunFetchContent(url) == Await(<<Task(url, FetchContentStart(nodeEnv, url))>>)

\* batchFetchContent(urls) up to its await
RunBatchFetchContent(e, us) ==
    IF nodeEnv = "test" THEN Complete(Finish(e, "batch", MockBatch(us)))
    ELSE IF Len(us) > MaxBatchUrls
         THEN Complete(Finish(e, "batch", Throw(Error(BatchLimitMsg))))
    ELSE Await(LaunchAll(nodeEnv, us))

\* handleAnalyzeWebpage up to its await
RunHandleAnalyzeWebpage(url) ==
    IF ~ParsesAsUrl(url) THEN Complete(Return(ErrEnvelope(InvalidUrlMsg)))
    ELSE RunFetchContent(url)

\* handleBatchAnalyzeWebpages up to its await
RunHandleBatchAnalyzeWebpages(e, us) ==
    IF Len(us) > MaxBatchUrls THEN Complete(Return(ErrEnvelope(TooManyUrlsMsg)))
    ELSE IF InvalidUrls(us) # <<>>
         THEN Complete(Return(ErrEnvelope(InvalidUrlsMsg(InvalidUrls(us)))))
    ELSE RunBatchFetchContent(e, us)

\* the urls of an extract_multiple_webpages request: urls.map(String)
ToolUrls(j) ==
    [i \in 1..Len(j.members.urls.items) |-> JsString(j.members.urls.items[i])]

\* the handler of CallToolRequestSchema
CallTool(req) ==
    LET d == Dispatch(req)
    IN  CASE d = "google_search" ->
                /\ Begin("CallTool", req,
                         [kind |-> "search", args |-> ToolSearchArgs(req.arguments)])
                /\ RunHandleSearch(ToolSearchArgs(req.arguments))
          [] d = "extract_webpage_content" ->
                /\ Begin("CallTool", req,
                         [kind |-> "page",
                          urls |-> <<JsString(req.arguments.members.url)>>])
                /\ RunHandleAnalyzeWebpage(JsString(req.arguments.members.url))
          [] d = "extract_multiple_webpages" ->
                /\ Begin("CallTool", req,
                         [kind |-> "batch", urls |-> ToolUrls(req.arguments)])
                /\ RunHandleBatchAnalyzeWebpages("CallTool", ToolUrls(req.arguments))
          [] OTHER ->
                /\ Begin("CallTool", req, NoOp)
                /\ Complete(Throw(DispatchError(req)))

\* handleSearch called on the service, as the repository's tests do
CallHandleSearch(args) ==
    /\ Begin("handleSearch", [name |-> "handleSearch", arguments |-> JObj(ToJson(args))],
             [kind |-> "search", args |-> args])
    /\ RunHandleSearch(args)

\* ContentFetcher.fetchContent called by a client of the class
CallFetchContent(url) ==
    /\ Begin("fetchContent", [name |-> "fetchContent", arguments |-> JStr(url)],
             [kind |-> "page", urls |-> <<url>>])
    /\ RunFetchContent(url)

\* ContentFetcher.batchFetchContent called by a client of the class
CallBatchFetchContent(us) ==
    /\ Begin("batchFetchContent", [name |-> "batchFetchContent", arguments |-> JUrls(us)],
             [kind |-> "batch", urls |-> us])
    /\ RunBatchFetchContent("batchFetchContent", us)

\* GoogleSearchService.search(query, numResults = 5, options): handleSearch
\* with num_results: numResults and the members of options
CallSearch(args) ==
    LET passed == [k \in DOMAIN args \cup {"num_results"} |->
                     IF k \in DOMAIN args THEN args[k] ELSE 5]
    IN  /\ Begin("search", [name |-> "search", arguments |-> JObj(ToJson(args))],
                 [kind |-> "search", args |-> passed])
        /\ RunHandleSearch(passed)

\* GoogleSearchService.extractWebpage(url)
CallExtractWebpage(url) ==
    /\ Begin("extractWebpage", [name |-> "extractWebpage", arguments |-> JStr(url)],
             [kind |-> "page", urls |-> <<url>>])
    /\ RunHandleAnalyzeWebpage(url)

\* GoogleSearchService.batchExtractWebpages(urls)
CallBatchExtractWebpages(us) ==
    /\ Begin("batchExtractWebpages",
             [name |-> "batchExtractWebpages", arguments |-> JUrls(us)],
             [kind |-> "batch", urls |-> us])
    /\ RunHandleBatchAnalyzeWebpages("batchExtractWebpages", us)

\* the microtask queue: the settled promises whose awaiting code has not run
Settled(ts) == {i \in 1..Len(ts) : ts[i].st = "settled"}

\* the network answers the axios.get of task i
FetchRespond(i, resp) ==
    /\ tasks[i].st = "inflight"
    /\ Settled(tasks) = {}
    /\ tasks' = [tasks EXCEPT ![i] =
                    [Task(tasks[i].url, FetchContentFinish(tasks[i].url, resp))
                        EXCEPT !.resp = resp]]
    /\ UNCHANGED <<nodeEnv, creds, pc, entry, op, request, results, fetchLog,
                   keyLookups, upstream, result, outcome>>

\* the code awaiting the first settled fetchContent promise runs on: the
\* batch callback stores the entry; a single-page call completes
Continue ==
    /\ Settled(tasks) # {}
    /\ LET i == CHOOSE k \in Settled(tasks) : \A j \in Settled(tasks) : k <= j
       IN  /\ tasks' = [tasks EXCEPT ![i].st = "collected"]
           /\ IF op.kind = "batch"
              THEN /\ results' = Assign(results, tasks[i].url, tasks[i].completion)
                   /\ UNCHANGED <<pc, result, outcome>>
              ELSE /\ pc' = "done"
                   /\ Settle(entry, Finish(entry, "page", tasks[i].completion))
                   /\ UNCHANGED results
    /\ UNCHANGED <<nodeEnv, creds, entry, op, request, fetchLog, keyLookups,
                   upstream>>

\* Promise.all has resolved: batchFetchContent returns results
BatchReturn ==
    /\ pc = "awaitFetch"
    /\ op.kind = "batch"
    /\ AllCollected(tasks)
    /\ pc' = "done"
    /\ Settle(entry, Finish(entry, "batch", Return(results)))
    /\ UNCHANGED <<nodeEnv, creds, entry, op, request, tasks, results, fetchLog,
                   keyLookups, upstream>>

\* the search API answers
SearchRespond(resp) ==
    /\ upstream' = resp
    /\ pc' = "done"
    /\ Settle(entry, SearchFinish(resp))
    /\ UNCHANGED <<nodeEnv, creds, entry, op, request, tasks, results, fetchLog,
                   keyLookups>>

\* a caller invokes one of the entry points
Call ==
    /\ pc = "idle"
    /\ \/ \E req \in ToolRequests : CallTool(req)
       \/ \E args \in SearchArgObjects : CallHandleSearch(args)
       \/ \E u \in Urls : CallFetchContent(u)
       \/ \E us \in UrlSeqs : CallBatchFetchContent(us)
       \/ \E args \in SearchArgObjects : CallSearch(args)
       \/ \E u \in Urls : CallExtractWebpage(u)
       \/ \E us \in MethodUrlSeqs : CallBatchExtractWebpages(us)

\* the network delivers an answer
Respond ==
    \/ \E i \in 1..Len(tasks) : \E resp \in PageResponses(tasks[i].url) :
          FetchRespond(i, resp)
    \/ pc = "awaitSearch" /\ \E resp \in SearchResponses : SearchRespond(resp)

Next == Call \/ Respond \/ Continue \/ BatchReturn

Spec == Init /\ [][Next]_vars

\* the scheduling of the event loop: a queued continuation runs, and a
\* resolved Promise.all resumes the function awaiting it
FairSpec == Spec /\ WF_vars(Continue) /\ WF_vars(BatchReturn)

----------------------------------------------------------------------------
(* Properties of batchFetchContent *)

\* C1: the keys of the results object are at every moment the urls whose
\* callback has run, and the mapping batchFetchContent returns for at most
\* MaxBatchUrls urls has exactly the input urls as its keys: none is missing
\* and none is added, whichever of them succeeded or failed.
BatchKeysAreInputUrls ==
    /\ op.kind = "batch"
        => DOMAIN results.entries =
            {tasks[i].url : i \in {j \in 1..Len(tasks) : tasks[j].st = "collected"}}
    /\ (/\ pc = "done"
        /\ entry = "batchFetchContent"
        /\ Len(op.urls) <= MaxBatchUrls
        /\ outcome.kind = "return")
        => DOMAIN outcome.value.entries = {op.urls[i] : i \in 1..Len(op.urls)}

\* a batch of two different urls has returned, one entry a page content and
\* the other an error record
BatchKeysWitness ==
    /\ pc = "done"
    /\ entry = "batchFetchContent"
    /\ nodeEnv = "production"
    /\ outcome.kind = "return"
    /\ Len(op.urls) = 3
    /\ \E u, v \in DOMAIN outcome.value.entries :
          /\ "error" \in DOMAIN outcome.value.entries[u]
          /\ "error" \notin DOMAIN outcome.value.entries[v]

\* C2: batchFetchContent with at most MaxBatchUrls urls returns normally
\* whatever fails for one url, and the entry of each url is what a fetchContent
\* call for that url completed with: its content, or an error record that
\* carries the message only.
BatchNeverThrowsPastTheCall ==
    (/\ pc = "done"
     /\ entry = "batchFetchContent"
     /\ Len(op.urls) <= MaxBatchUrls)
    => /\ outcome.kind = "return"
       /\ \A k \in 1..Len(op.urls) :
            LET u == op.urls[k]
                own == IF nodeEnv = "test" THEN {FetchContentStart(nodeEnv, u)}
                       ELSE {tasks[i].completion :
                                i \in {j \in 1..Len(tasks) : tasks[j].url = u}}
            IN  /\ u \in DOMAIN outcome.value.entries
                /\ \E c \in own :
                      IF c.kind = "return"
                      THEN outcome.value.entries[u] = c.value
                      ELSE /\ DOMAIN outcome.value.entries[u] = {"error"}
                           /\ outcome.value.entries[u].error = c.error.message

\* C3: batchFetchContent returns only when every fetchContent promise it
\* created has settled and its callback has stored the entry; nothing is
\* written to results or to the promises after the return; and once no
\* promise is pending any more the call does return.
BatchReturnsWhenAllSettled ==
    /\ []((pc = "done" /\ op.kind = "batch")
            => \A i \in 1..Len(tasks) :
                  /\ tasks[i].st = "collected"
                  /\ tasks[i].url \in DOMAIN results.entries)
    /\ [][pc = "done" => (results' = results /\ tasks' = tasks)]_vars
    /\ ((/\ pc = "awaitFetch"
         /\ op.kind = "batch"
         /\ \A i \in 1..Len(tasks) : tasks[i].st # "inflight") ~> (pc = "done"))

\* a batch of three has returned after its fetches settled, the last of them
\* with a failure
BatchReturnWitness ==
    /\ pc = "done"
    /\ op.kind = "batch"
    /\ Len(tasks) = 3
    /\ tasks[3].completion.kind = "throw"
    /\ tasks[1].completion.kind = "return"
    /\ outcome.kind = "return"

\* C4: while batchFetchContent waits, there is one fetchContent promise per
\* input url, in the order of the input, and the axios.get of every url that
\* new URL accepts is already in the log of issued fetches: the fetches are
\* all issued before the first wait, none after a completion.
AllFetchesStartedBeforeTheWait ==
    (op.kind = "batch" /\ pc = "awaitFetch")
    => /\ Len(tasks) = Len(op.urls)
       /\ \A i \in 1..Len(tasks) : tasks[i].url = op.urls[i]
       /\ Len(fetchLog) = Cardinality({i \in 1..Len(op.urls) : ":" \in Range(op.urls[i])})
       /\ \A i \in 1..Len(op.urls) :
            (":" \in Range(op.urls[i]))
                => \E k \in 1..Len(fetchLog) :
                      fetchLog[k] = [api |-> "page", url |-> op.urls[i]]

\* the first fetch of a batch of three is still in flight while the entries
\* of the two others are in results
OthersFilledWitness ==
    /\ op.kind = "batch"
    /\ pc = "awaitFetch"
    /\ Len(tasks) = 3
    /\ tasks[1].st = "inflight"
    /\ tasks[2].st = "collected"
    /\ tasks[3].st = "collected"
    /\ op.urls[1] \notin {op.urls[2], op.urls[3]}
    /\ DOMAIN results.entries = {op.urls[2], op.urls[3]}

\* C5: a batch of more than MaxBatchUrls urls fails with the limit error,
\* thrown by batchFetchContent and reported in an error envelope by the
\* handler, and no fetch is issued.
OverLimitBatchFails ==
    (/\ pc = "done"
     /\ op.kind = "batch"
     /\ Len(op.urls) > MaxBatchUrls)
    => /\ fetchLog = <<>>
       /\ IF entry = "batchFetchContent"
          THEN outcome.kind = "throw" /\ outcome.error = Error(BatchLimitMsg)
          ELSE IF entry = "batchExtractWebpages"
               THEN result = Return(ErrEnvelope(TooManyUrlsMsg))
          ELSE outcome = Return(ErrEnvelope(TooManyUrlsMsg))

----------------------------------------------------------------------------
(* Properties of handleSearch *)

\* C6: a search whose num_results is given and lies outside
\* MinNumResults..MaxNumResults (0 and the negative values included) fails
\* with the invalid-result-count error and sends no request upstream.
OutOfRangeCountIsRejected ==
    (/\ op.kind = "search"
     /\ \E i \in 1..Len(op.args.query) : op.args.query[i] \notin WhiteSpace
     /\ "num_results" \in DOMAIN op.args
     /\ (op.args.num_results < MinNumResults \/ op.args.num_results > MaxNumResults))
    => /\ pc = "done"
       /\ IF entry = "search"
          THEN result = Return(ErrEnvelope(InvalidNumResultsMsg))
          ELSE outcome = Return(ErrEnvelope(InvalidNumResultsMsg))
       /\ fetchLog = <<>>

\* C7: a search whose query is empty or has white space only fails with the
\* empty-query error; getApiKeys is not called and no request is sent.
BlankQueryIsRejected ==
    (/\ op.kind = "search"
     /\ \A i \in 1..Len(op.args.query) : op.args.query[i] \in WhiteSpace)
    => /\ pc = "done"
       /\ IF entry = "search"
          THEN result = Return(ErrEnvelope(EmptyQueryMsg))
          ELSE outcome = Return(ErrEnvelope(EmptyQueryMsg))
       /\ keyLookups = 0
       /\ fetchLog = <<>>

\* a query of two white-space characters was rejected
BlankQueryWitness ==
    /\ pc = "done"
    /\ op.kind = "search"
    /\ Len(op.args.query) = 2
    /\ op.args.query[1] \in WhiteSpace
    /\ op.args.query[2] \in WhiteSpace
    /\ entry = "handleSearch"
    /\ IsErrorEnvelope(outcome.value)

----------------------------------------------------------------------------
(* Properties of the single-page extraction and of the tool-call handler *)

\* C8: a url without a scheme, such as "invalid-url", makes fetchContent and
\* the extract_webpage_content handler fail with an invalid-URL error in test
\* mode and outside it: fetchContent rejects with the error of the URL check
\* (the TypeError of new URL in test mode), the handler answers with the
\* invalid-URL envelope, and no fetch is issued or in flight at any moment.
InvalidUrlFailsBeforeFetch ==
    (op.kind = "page" /\ ":" \notin Range(op.urls[1]))
    => /\ fetchLog = <<>>
       /\ \A i \in 1..Len(tasks) : tasks[i].st # "inflight"
       /\ pc # "idle"
       /\ pc = "done" =>
            IF entry = "CallTool"
            THEN outcome = Return(ErrEnvelope(InvalidUrlMsg))
            ELSE IF entry = "extractWebpage"
                 THEN result = Return(ErrEnvelope(InvalidUrlMsg))
            ELSE IF nodeEnv = "test"
                 THEN outcome = Throw(TypeError(<<"Invalid URL">>))
            ELSE outcome = Throw(Error(<<"content extraction error: ",
                                         "invalid URL format: ">> \o op.urls[1]))

\* fetchContent("invalid-url") has failed outside test mode
InvalidUrlWitness ==
    /\ pc = "done"
    /\ entry = "fetchContent"
    /\ nodeEnv = "production"
    /\ op.urls = <<UrlBad>>
    /\ outcome.kind = "throw"

\* C9: a fetch is issued only for an http or https url, and a page
\* extraction of a url with another scheme ends as one of a url that does not
\* parse does: with the invalid-URL error and without a fetch.
OnlyHttpUrlsAreFetched ==
    /\ \A k \in 1..Len(fetchLog) :
          fetchLog[k].api = "page" => UrlScheme(fetchLog[k].url) \in HttpSchemes
    /\ (/\ pc = "done"
        /\ op.kind = "page"
        /\ UrlScheme(op.urls[1]) \notin HttpSchemes)
        => IF entry = "CallTool"
           THEN outcome = Return(ErrEnvelope(InvalidUrlMsg))
           ELSE IF entry = "extractWebpage"
                THEN result = Return(ErrEnvelope(InvalidUrlMsg))
           ELSE /\ outcome.kind = "throw"
                /\ outcome.error.message \in
                      {<<"Invalid URL">>,
                       <<"content extraction error: ", "invalid URL format: ">>
                            \o op.urls[1]}

\* C10 as stated: every request to the tool-call handler is answered with a
\* response envelope, never with a throw.
ToolCallNeverThrows ==
    (pc = "done" /\ entry = "CallTool")
    => /\ outcome.kind = "return"
       /\ "content" \in DOMAIN outcome.value

\* C10 as amended: the tool-call handler throws an Error when the tool name
\* is none of the three tools, or the arguments are not an object with the
\* tool's required member (query, url, or urls as an array); it throws a
\* TypeError when a google_search got an upstream error response whose
\* error.errors has a positive length and is not an array, or is an array
\* with a null element; every other request is answered with an envelope of
\* one text item that carries the error flag only when it is set.
ToolCallAnswer ==
    (pc = "done" /\ entry = "CallTool")
    => LET a == request.arguments
           required ==
                CASE request.name = "google_search" -> "query"
                  [] request.name = "extract_webpage_content" -> "url"
                  [] request.name = "extract_multiple_webpages" -> "urls"
                  [] OTHER -> ""
           shaped ==
                /\ required # ""
                /\ a.type = "object"
                /\ required \in DOMAIN a.members
                /\ required = "urls" => a.members.urls.type = "array"
           malformed ==
                /\ op.kind = "search"
                /\ "kind" \in DOMAIN upstream
                /\ upstream.kind = "error"
                /\ "response" \in DOMAIN upstream.error
                /\ "error" \in DOMAIN upstream.error.response.data
                /\ "errors" \in DOMAIN upstream.error.response.data.error
                /\ LET errors == upstream.error.response.data.error.errors
                   IN  \/ errors.type = "string" /\ errors.value # <<>>
                       \/ /\ errors.type = "array"
                          /\ \E i \in 1..Len(errors.items) :
                                errors.items[i].type = "null"
       IN  IF ~shaped
           THEN outcome = Throw(Error(
                    IF required # ""
                    THEN <<"Invalid arguments for ", request.name, " tool">>
                    ELSE <<"Unknown tool: ", request.name>>))
           ELSE IF malformed
                THEN outcome.kind = "throw" /\ outcome.error.name = "TypeError"
           ELSE /\ outcome.kind = "return"
                /\ "content" \in DOMAIN outcome.value
                /\ DOMAIN outcome.value \subseteq {"content", "isError"}
                /\ Len(outcome.value.content) = 1
                /\ outcome.value.content[1].type = "text"
                /\ "isError" \in DOMAIN outcome.value => outcome.value.isError

\* a google_search call has thrown the TypeError of handleError
ToolCallThrowWitness ==
    /\ pc = "done"
    /\ entry = "CallTool"
    /\ request.name = "google_search"
    /\ outcome.kind = "throw"
    /\ outcome.error.name = "TypeError"

----------------------------------------------------------------------------
(* Properties of the search results and of the upstream parameters *)

\* what handleSearch answered: the public method search keeps it in result
Answer == IF entry = "search" THEN result ELSE outcome

\* C11: when the upstream answers 2xx, handleSearch returns a success
\* envelope with one result per item if items is an array, the empty array
\* included (an empty result list, not an error), and the no-results error
\* envelope if items is missing or is not an array.
EmptyListIsSuccess ==
    (/\ pc = "done"
     /\ op.kind = "search"
     /\ "kind" \in DOMAIN upstream
     /\ upstream.kind = "ok")
    => IF "items" \in DOMAIN upstream.data /\ upstream.data.items.type = "array"
       THEN /\ Answer.kind = "return"
            /\ DOMAIN Answer.value = {"content"}
            /\ Answer.value.content[1].text[1] = "json"
            /\ Answer.value.content[1].text[2].type = "array"
            /\ Len(Answer.value.content[1].text[2].items)
                  = Len(upstream.data.items.items)
       ELSE Answer = Return(ErrEnvelope(NoResultsMsg))

\* the upstream answered with items: [] and the search returned an empty list
EmptyListWitness ==
    /\ pc = "done"
    /\ entry = "handleSearch"
    /\ op.kind = "search"
    /\ "kind" \in DOMAIN upstream
    /\ upstream.kind = "ok"
    /\ "items" \in DOMAIN upstream.data
    /\ upstream.data.items = [type |-> "array", items |-> <<>>]
    /\ outcome.kind = "return"
    /\ "isError" \notin DOMAIN outcome.value
    /\ outcome.value.content[1].text[2].items = <<>>

\* C12: the parameters of the upstream call are a fixed function of the
\* validated arguments: q is the query unchanged, num is num_results or 5,
\* dateRestrict is date_restrict unchanged, lr is "lang_" and the language
\* (absent without one), cr is "country" and the upper-cased country code
\* (absent without one), safe is safe_search or "off". A value that is
\* falsy in JavaScript (0, the empty string) counts as not given.
UpstreamParamsFollowTheQuery ==
    (op.kind = "search" /\ fetchLog # <<>>)
    => LET a == op.args
           p == fetchLog[1].params
           has(k) == k \in DOMAIN a /\ a[k] # <<>>
       IN  /\ fetchLog[1].api = "search"
           /\ Trim(a.query) # <<>>
           /\ p.q = a.query
           /\ p.num = IF "num_results" \in DOMAIN a /\ a.num_results # 0
                      THEN a.num_results ELSE 5
           /\ IF "date_restrict" \in DOMAIN a
              THEN "dateRestrict" \in DOMAIN p /\ p.dateRestrict = a.date_restrict
              ELSE "dateRestrict" \notin DOMAIN p
           /\ IF has("language")
              THEN "lr" \in DOMAIN p /\ p.lr = <<"lang_">> \o a.language
              ELSE "lr" \notin DOMAIN p
           /\ IF has("country")
              THEN /\ "cr" \in DOMAIN p
                   /\ Len(p.cr) = 1 + Len(a.country)
                   /\ p.cr[1] = "country"
                   /\ \A i \in 1..Len(a.country) : p.cr[i + 1] = UpperOf(a.country[i])
              ELSE "cr" \notin DOMAIN p
           /\ p.safe = IF has("safe_search") THEN a.safe_search ELSE <<"off">>
           /\ (has("language") /\ a.language = <<"j", "a">>)
                 => p.lr = <<"lang_", "j", "a">>
           /\ (has("country") /\ a.country = <<"u", "s">>)
                 => p.cr = <<"country", "U", "S">>

\* a search with language "ja" and country "us" and no safe_search reached
\* the upstream with lr = lang_ja, cr = countryUS and safe = off
UpstreamParamsWitness ==
    /\ op.kind = "search"
    /\ fetchLog # <<>>
    /\ DOMAIN op.args = {"query", "language", "country"}
    /\ fetchLog[1].params.lr = <<"lang_", "j", "a">>
    /\ fetchLog[1].params.cr = <<"country", "U", "S">>
    /\ fetchLog[1].params.safe = <<"off">>
    /\ fetchLog[1].params.num = 5

\* C13: for a well-formed upstream response the search returns exactly one
\* result per upstream item, in upstream order, nothing dropped, merged or
\* re-ranked; datePublished is the article:published_time of the first
\* metatags entry of the item's pagemap when there is one and the empty
\* string otherwise, source is displayLink or the empty string.
OneResultPerItemInOrder ==
    (/\ pc = "done"
     /\ op.kind = "search"
     /\ "kind" \in DOMAIN upstream
     /\ upstream.kind = "ok"
     /\ "items" \in DOMAIN upstream.data
     /\ upstream.data.items.type = "array")
    => LET items == upstream.data.items.items
           found == Answer.value.content[1].text[2].items
           nested(it) ==
               /\ "pagemap" \in DOMAIN it
               /\ "metatags" \in DOMAIN it.pagemap
               /\ Len(it.pagemap.metatags) >= 1
               /\ "article:published_time" \in DOMAIN it.pagemap.metatags[1]
       IN  /\ Answer.kind = "return"
           /\ Len(found) = Len(items)
           /\ \A i \in 1..Len(items) :
                /\ found[i].title = items[i].title
                /\ found[i].link = items[i].link
                /\ found[i].snippet = items[i].snippet
                /\ found[i].datePublished =
                      IF nested(items[i])
                      THEN items[i].pagemap.metatags[1]["article:published_time"]
                      ELSE <<>>
                /\ found[i].source =
                      IF "displayLink" \in DOMAIN items[i]
                      THEN items[i].displayLink ELSE <<>>

\* three items, the second with a publication time and a display link, the
\* first and third equal and without either, came back as three results
OneResultPerItemWitness ==
    /\ pc = "done"
    /\ entry = "handleSearch"
    /\ op.kind = "search"
    /\ "kind" \in DOMAIN upstream
    /\ upstream.kind = "ok"
    /\ "items" \in DOMAIN upstream.data
    /\ upstream.data.items = JArr(<<Item2, Item1, Item2>>)
    /\ outcome.kind = "return"
    /\ Len(outcome.value.content[1].text[2].items) = 3
    /\ outcome.value.content[1].text[2].items[2].datePublished = <<"2024">>
    /\ outcome.value.content[1].text[2].items[2].source = <<"a">>
    /\ outcome.value.content[1].text[2].items[3].datePublished = <<>>
    /\ outcome.value.content[1].text[2].items[3].source = <<>>

\* C17: when the upstream search call fails with an HTTP-level error (an
\* answer outside 2xx), the search answers with an error envelope whose text
\* holds the upstream error code (the HTTP status without one), the upstream
\* message, and one "reason: message" line per itemized sub-error in
\* upstream order.
HttpErrorCarriesUpstreamDetails ==
    (/\ pc = "done"
     /\ op.kind = "search"
     /\ "kind" \in DOMAIN upstream
     /\ upstream.kind = "error"
     /\ "response" \in DOMAIN upstream.error)
    => /\ Answer.kind = "return"
       /\ "isError" \in DOMAIN Answer.value
       /\ Answer.value.isError
       /\ LET text == Answer.value.content[1].text
              data == upstream.error.response.data
              info == IF "error" \in DOMAIN data THEN data.error
                      ELSE [type |-> "object"]
              code == IF "code" \in DOMAIN info THEN info.code
                      ELSE upstream.error.response.status
              subs == IF "errors" \in DOMAIN info THEN info.errors.items ELSE <<>>
              occ(w) == {i \in 1..(Len(text) - Len(w) + 1) :
                            SubSeq(text, i, i + Len(w) - 1) = w}
              line(e) == e.reason \o <<":", " ">> \o e.message
          IN  /\ \E i \in 1..Len(text) : text[i] = code
              /\ "message" \in DOMAIN info => occ(info.message) # {}
              /\ \E pos \in [1..Len(subs) -> 1..Len(text)] :
                    /\ \A i \in 1..Len(subs) : pos[i] \in occ(line(subs[i]))
                    /\ \A i, j \in 1..Len(subs) : i < j => pos[i] < pos[j]

----------------------------------------------------------------------------
(* Properties of fetchContent *)

\* C18: fetchContent reports three causes of failure apart and never one as
\* another: a response outside 2xx throws an error whose message carries the
\* HTTP status, a transport failure (no response) throws an error without a
\* status, and an invalid url (one that is not an absolute http or https
\* url) throws an invalid-URL error.
FailureCausesAreReportedApart ==
    (pc = "done" /\ entry = "fetchContent")
    => LET t == tasks[1]
           u == t.url
           isInvalid == ":" \notin Range(u) \/ UrlScheme(u) \notin HttpSchemes
           thrown == outcome.kind = "throw"
           httpMsg == <<"failed to fetch the web page (HTTP ", t.resp.status, "): ">> \o u
           invalidReport ==
               /\ thrown
               /\ \/ outcome.error.message
                        = <<"content extraction error: ", "invalid URL format: ">> \o u
                  \/ outcome.error = [name |-> "TypeError", message |-> <<"Invalid URL">>]
       IN  /\ isInvalid => invalidReport
           /\ (~isInvalid /\ t.resp.kind = "httpError")
                 => (thrown /\ outcome.error.message = httpMsg)
           /\ (~isInvalid /\ t.resp.kind = "noResponse")
                 => /\ thrown
                    /\ outcome.error.message
                          = <<"content extraction error: ">> \o t.resp.message
                    /\ \A i \in 1..Len(outcome.error.message) :
                          outcome.error.message[i] \notin {"404", "invalid URL format: "}
           /\ (~isInvalid /\ t.resp.kind \in {"ok", "none"}) => ~thrown

\* C14 as stated: extracting a document that contains <h1>A</h1><p>B C</p>
\* and no main or article region yields the body "# A\n\nB C\n\n" and
\* stats.word_count = 3.
HeadingAndParagraphCountThree ==
    \A i \in 1..Len(tasks) :
        (tasks[i].resp.kind = "ok" /\ tasks[i].resp.doc = DocAB)
        => /\ tasks[i].completion.kind = "return"
           /\ tasks[i].completion.value.markdown_content
                 = <<"#", " ", "A", "\n", "\n", "B", " ", "C", "\n", "\n">>
           /\ tasks[i].completion.value.stats.word_count = 3

\* C14: extracting a document that contains <h1>A</h1><p>B C</p> and no main
\* or article region yields the body "# A\n\nB C\n\n" and stats.word_count
\* = 4: the heading marker "#" is a whitespace-delimited token of the body
\* as well as A, B and C.
HeadingAndParagraphCountFour ==
    \A i \in 1..Len(tasks) :
        (tasks[i].resp.kind = "ok" /\ tasks[i].resp.doc = DocAB)
        => /\ tasks[i].completion.kind = "return"
           /\ tasks[i].completion.value.markdown_content
                 = <<"#", " ", "A", "\n", "\n", "B", " ", "C", "\n", "\n">>
           /\ tasks[i].completion.value.stats.word_count = 4

\* fetchContent returned the content of that document to its caller
HeadingAndParagraphWitness ==
    /\ pc = "done"
    /\ entry = "fetchContent"
    /\ tasks[1].resp.kind = "ok"
    /\ tasks[1].resp.doc = DocAB
    /\ outcome.kind = "return"
    /\ outcome.value.url = tasks[1].url
    /\ outcome.value.stats.word_count = 4
    /\ outcome.value.stats.approximate_chars = 10

\* C15: for every page content fetchContent returns, stats.word_count is the
\* number of non-empty whitespace-delimited tokens of the body text,
\* stats.approximate_chars is the length of the body text, and the preview
\* is the first 500 characters of the body text (all of it when shorter).
StatsDescribeTheBody ==
    \A i \in 1..Len(tasks) :
        tasks[i].completion.kind = "return"
        => LET c == tasks[i].completion.value
               text == c.markdown_content
               starts == {k \in 1..Len(text) :
                            /\ text[k] \notin WhiteSpace
                            /\ (k = 1 \/ text[k - 1] \in WhiteSpace)}
           IN  /\ c.stats.word_count = Cardinality(starts)
               /\ c.stats.approximate_chars = Len(text)
               /\ c.content_preview.first_500_chars
                     = SubSeq(text, 1, IF Len(text) < 500 THEN Len(text) ELSE 500)

\* C20: the primary content region is the first of <main>, <article>,
\* div[role=main], content/main class-or-id elements that has a match, and
\* the body when none has: of a document holding a paragraph X outside any
\* region, then a div.content with C, a div[role=main] with R, an article
\* with A and a main with M, up to the k-th of them, the body text is the
\* paragraph of the highest tier present alone.
HighestTierWins ==
    \A i \in 1..Len(tasks) :
        \A k \in 1..5 :
            (tasks[i].resp.kind = "ok" /\ tasks[i].resp.doc = TierDoc(k))
            => /\ tasks[i].completion.kind = "return"
               /\ tasks[i].completion.value.markdown_content
                     = << <<"X">>, <<"C">>, <<"R">>, <<"A">>, <<"M">> >>[k]
                          \o <<"\n", "\n">>

\* a page with all four regions was extracted as its main region alone
HighestTierWitness ==
    /\ pc = "done"
    /\ op.kind = "page"
    /\ tasks # <<>>
    /\ tasks[1].resp.kind = "ok"
    /\ tasks[1].resp.doc = TierDoc(5)
    /\ tasks[1].completion.value.markdown_content = <<"M", "\n", "\n">>
    /\ tasks[1].completion.value.stats.word_count = 1

----------------------------------------------------------------------------
(* Properties of the public methods of GoogleSearchService *)

\* C19: search, extractWebpage and batchExtractWebpages throw exactly when
\* the response of their handler carries the error flag, and otherwise
\* return the payload parsed from the response text; search with an empty
\* query, extractWebpage with a malformed url and batchExtractWebpages with
\* more than 5 urls throw.
MethodThrowsExactlyOnErrorFlag ==
    (pc = "done" /\ entry \in {"search", "extractWebpage", "batchExtractWebpages"})
    => LET flagged == /\ result.kind = "return"
                      /\ "isError" \in DOMAIN result.value
                      /\ result.value.isError
       IN  /\ outcome.kind = "throw" <=> flagged
           /\ flagged => outcome.error.message = result.value.content[1].text
           /\ ~flagged => /\ outcome.kind = "return"
                          /\ result.value.content[1].text = <<"json", outcome.value>>
           /\ (entry = "search" /\ op.args.query = <<>>) => outcome.kind = "throw"
           /\ (entry = "extractWebpage" /\ ":" \notin Range(op.urls[1]))
                 => outcome.kind = "throw"
           /\ (entry = "batchExtractWebpages" /\ Len(op.urls) > 5)
                 => outcome.kind = "throw"

----------------------------------------------------------------------------
(* Properties of the extract_multiple_webpages handler *)

\* C24: when at least one of the at most 5 urls of the handler's request
\* does not parse, the request is answered with the error envelope that
\* lists exactly the urls that do not parse, in request order; no fetch is
\* issued for any url of the request and no result mapping is built or
\* returned.
InvalidUrlRejectsWholeBatch ==
    (/\ op.kind = "batch"
     /\ entry \in {"CallTool", "batchExtractWebpages"}
     /\ Len(op.urls) <= 5
     /\ \E k \in 1..Len(op.urls) : ":" \notin Range(op.urls[k]))
    => LET NoScheme(u) == ":" \notin Range(u)
           listed == Join(SelectSeq(op.urls, NoScheme), <<",", " ">>)
           answer == IF entry = "CallTool" THEN outcome ELSE result
       IN  /\ pc = "done"
           /\ fetchLog = <<>>
           /\ tasks = <<>>
           /\ results.entries = <<>>
           /\ answer.kind = "return"
           /\ "isError" \in DOMAIN answer.value
           /\ answer.value.isError
           /\ answer.value.content[1].text =
                 <<"Invalid URL format for: ">> \o listed
                 \o <<"\nAll URLs must start with http:// or https:// and be properly formatted.">>

\* a request with a valid url between two that do not parse was rejected
InvalidUrlBatchWitness ==
    /\ pc = "done"
    /\ entry = "CallTool"
    /\ op.kind = "batch"
    /\ op.urls = <<UrlBad, UrlA, UrlBad>>
    /\ fetchLog = <<>>
    /\ outcome.kind = "return"
    /\ IsErrorEnvelope(outcome.value)

----------------------------------------------------------------------------
(* Properties of a batch with a repeated url *)

\* C26: outside test mode batchFetchContent issues one fetch per occurrence
\* of a url that parses, repeated or not; the callback of every occurrence
\* writes the slot keyed by its url, replacing what an earlier occurrence
\* left there and nothing else, so that the slot holds the value of the
\* occurrence that settled last; the mapping returned is the results object.
LastSettledOccurrenceWins ==
    /\ [](/\ (nodeEnv # "test" /\ op.kind = "batch" /\ tasks # <<>>)
             => /\ Len(tasks) = Len(op.urls)
                /\ \A k \in 1..Len(op.urls) : tasks[k].url = op.urls[k]
                /\ \A u \in {v \in Range(op.urls) : ":" \in Range(v)} :
                      Cardinality({k \in 1..Len(fetchLog) : fetchLog[k].url = u})
                         = Cardinality({k \in 1..Len(op.urls) : op.urls[k] = u})
          /\ (/\ nodeEnv # "test"
              /\ pc = "done"
              /\ entry = "batchFetchContent"
              /\ tasks # <<>>)
             => outcome = [kind |-> "return", value |-> results])
    /\ [][\A i \in 1..Len(tasks) :
            (/\ op.kind = "batch"
             /\ Len(tasks') = Len(tasks)
             /\ tasks[i].st = "settled"
             /\ tasks'[i].st = "collected")
            => /\ DOMAIN results'.entries
                     = DOMAIN results.entries \cup {tasks[i].url}
               /\ results'.entries[tasks[i].url]
                     = IF tasks[i].completion.kind = "return"
                       THEN tasks[i].completion.value
                       ELSE [error |-> tasks[i].completion.error.message]
               /\ \A u \in DOMAIN results.entries \ {tasks[i].url} :
                     results'.entries[u] = results.entries[u]]_vars

\* of two occurrences of one url the first was extracted and the second
\* failed, the second settled first, and the entry returned is the content
RepeatedUrlWitness ==
    /\ pc = "done"
    /\ entry = "batchFetchContent"
    /\ nodeEnv # "test"
    /\ op.urls = <<UrlA, UrlA>>
    /\ Len(fetchLog) = 2
    /\ tasks[1].completion.kind = "return"
    /\ tasks[2].completion.kind = "throw"
    /\ outcome.kind = "return"
    /\ outcome.value.entries[UrlA] = tasks[1].completion.value

----------------------------------------------------------------------------
(* Properties of the rendering *)

\* C21: when the winning tier matches several elements, only the first of
\* them in document order is the content region: of a document with two
\* article elements, a paragraph F in the first and a paragraph S in the
\* second, the body text is "F\n\n" and S does not appear in it.
OnlyFirstMatchIsRendered ==
    \A i \in 1..Len(tasks) :
        (tasks[i].resp.kind = "ok" /\ tasks[i].resp.doc = DocTwoArticles)
        => /\ tasks[i].completion.kind = "return"
           /\ tasks[i].completion.value.markdown_content = <<"F", "\n", "\n">>
           /\ "S" \notin Range(tasks[i].completion.value.markdown_content)

\* C22: every li of the selected region contributes exactly one "- item"
\* line to the body text, in lists nested inside other lists too, and the
\* list containers contribute nothing of their own: the body has as many
\* lines that begin with "- " as the region has li elements, and for the
\* list a, b with the list c nested in b after the paragraph P it is the
\* paragraph followed by three lines.
EveryListItemOneLine ==
    \A i \in 1..Len(tasks) :
        tasks[i].resp.kind = "ok"
        => LET clean == Without(tasks[i].resp.doc, NoiseSelector)
               items == Find(clean, MainContent(clean), {Tag("li")})
               text == tasks[i].completion.value.markdown_content
               lines == {k \in 1..(Len(text) - 1) :
                           /\ text[k] = "-"
                           /\ text[k + 1] = " "
                           /\ (k = 1 \/ text[k - 1] = "\n")}
           IN  /\ tasks[i].completion.kind = "return"
               /\ Cardinality(lines) = Len(items)
               /\ tasks[i].resp.doc = DocNestedList
                     => /\ SubSeq(text, 1, 3) = <<"P", "\n", "\n">>
                        /\ Cardinality(lines) = 3

\* C23: every rendered line of the body text, a list item line like the
\* lines of the other block kinds, carries its text trimmed and with its
\* whitespace runs collapsed to single spaces, and an element whose text
\* is empty after trimming produces no line: no blank of the body is
\* followed by another white space character, and the paragraph " x  y "
\* with the list of the items "a  b" and " " is rendered as the paragraph
\* x y and the single item line a b.
EveryLineCollapsedAndTrimmed ==
    \A i \in 1..Len(tasks) :
        tasks[i].resp.kind = "ok"
        => LET text == tasks[i].completion.value.markdown_content
           IN  /\ tasks[i].completion.kind = "return"
               /\ \A k \in 1..(Len(text) - 1) :
                     text[k] \in WhiteSpace \ {"\n"}
                     => text[k + 1] \notin WhiteSpace
               /\ tasks[i].resp.doc = DocLooseList
                     => text = <<"x", " ", "y", "\n", "\n",
                                 "-", " ", "a", " ", "b", "\n", "\n">>

====
